---- MODULE Spec2Model ----
(***************************************************************************)
(* Driver-monitoring detection pipeline of the mobile app.                 *)
(*                                                                         *)
(*  - DetectionEngine  (mobile-app/src/services/detectionEngine.ts):       *)
(*    per-frame classifiers, composite assessment, subscriber fan-out.     *)
(*  - FaceDetectionProcessor (components/FaceDetectionProcessor.tsx, the   *)
(*    battery-aware version): frame counters with decay and the           *)
(*    cooldown-gated trigger functions.                                    *)
(*                                                                         *)
(* Numbers: ratios and normalised coordinates are in thousandths          *)
(* (0.140 -> 140, 0.08 -> 80), pixel distances in pixels, times in ms.     *)
(* The landmark geometry (EAR, MAR, iris centroid, hand distances) is an   *)
(* input of a frame: a frame carries the metrics the extractor functions   *)
(* return for its landmarks.                                               *)
(***************************************************************************)
EXTENDS Integers, Sequences, FiniteSets, TLC

VARIABLES
    \* ---- DetectionEngine fields (detectionEngine.ts:16-28)
    config,             \* DetectionConfig
    eyeClosureCounter,
    blinkCounter,
    yawnCounter,
    blinkTimer,
    marHistory,
    calibrationData,    \* NoCalibration or [gazeCenter, headCenterX, headCenterY]
    isCalibrated,
    alertCallbacks,     \* number of registered subscribers (callbacks 1..n)
    \* ---- observation of the last engine call
    frame,              \* the frame passed to the last processFrame (NoFrame: none)
    result,             \* DetectionResult returned by the last call (NoResult: none)
    emitted,            \* alerts built by triggerAlert during the last call
    received,           \* received[s]: alerts delivered to subscriber s in the last call
    yawnRun,            \* frames with MAR above the threshold since the yawn last fired
    \* ---- FaceDetectionProcessor (FaceDetectionProcessor.tsx)
    isMonitoring,       \* the isMonitoring prop
    detectionState,     \* the detectionState of useState
    captured,           \* the detectionState the running handlers closed over
    triggerCalls,       \* the trigger*Alert calls of the last handleDetectionResults
    suppressedSince,    \* the drowsiness/yawn gate suppressed a call since it last dispatched
    \* ---- SyncService (syncService.ts)
    isOnline,
    isSyncing,
    syncTimer,          \* TRUE while the auto-sync interval is set
    authToken,          \* TRUE while a token is held
    autoSyncEnabled,    \* config.autoSyncEnabled
    tokenLoading,       \* loadAuthToken() of the constructor has not resolved yet
    syncRuns,           \* the position of every syncPendingData run in progress
    syncCall,           \* outcome of the syncPendingData call of the last step, if any
    \* ---- wall clock (Date.now())
    now

engineVars == <<config, eyeClosureCounter, blinkCounter, yawnCounter, blinkTimer,
                marHistory, calibrationData, isCalibrated, alertCallbacks,
                frame, result, emitted, received, yawnRun>>

processorVars == <<isMonitoring, detectionState, captured, triggerCalls, suppressedSince>>

syncVars == <<isOnline, isSyncing, syncTimer, authToken, autoSyncEnabled, tokenLoading,
              syncRuns, syncCall>>

(***************************************************************************)
(* Bounds of the model.                                                    *)
(***************************************************************************)
\* cap on eyeClosureCounter (the code has none)
MaxClosure == 32
\* cap on blinkCounter within a window
MaxBlinks == 2
\* clock ticks in a behaviour
MaxTicks == 2
\* subscribers registered
MaxSubs == 2
\* frames with the mouth open counted between two firings of the yawn (more are
\* recorded as this many)
MaxYawnFrames == 4
\* entries of marHistory kept (30 in the code)
HistLen == 1

\* one tick of the clock while the engine runs, ms
TickMs == 30001
\* one tick of the clock while the processor runs, ms
ProcessorTickMs == 1500
\* Date.now() when the app starts
StartTime == 100000

(***************************************************************************)
(* Configuration (detectionEngine.ts:4-13).                                *)
(***************************************************************************)
DEFAULT_CONFIG ==
    [ earThreshold             |-> 140,
      eyeClosedFramesThreshold |-> 9,
      blinkRateThreshold       |-> 5,
      marThreshold             |-> 600,
      yawnThreshold            |-> 3,
      gazeDeviationThreshold   |-> 50,
      headTurnThreshold        |-> 80,
      handNearFaceDistance     |-> 200 ]

\* variant: the partial merged into the defaults, as the constructor does
MergeConfigDefaults(c, p) ==
    [k \in DOMAIN c |-> IF k \in DOMAIN p THEN p[k]
                        ELSE IF k = "earThreshold" THEN 140
                        ELSE IF k = "eyeClosedFramesThreshold" THEN 9
                        ELSE IF k = "blinkRateThreshold" THEN 5
                        ELSE IF k = "marThreshold" THEN 600
                        ELSE IF k = "yawnThreshold" THEN 3
                        ELSE IF k = "gazeDeviationThreshold" THEN 50
                        ELSE IF k = "headTurnThreshold" THEN 80
                        ELSE 200]

\* { ...this.config, ...config }: the fields of p replace those of c
MergeConfig(c, p) ==
    [k \in DOMAIN c |-> IF k \in DOMAIN p THEN p[k] ELSE c[k]]

NoCalibration == [set |-> FALSE]

Abs(x) == IF x < 0 THEN -x ELSE x

Rank(level) ==
    CASE level = "severe" -> 3
      [] level = "moderate" -> 2
      [] level = "mild" -> 1
      [] OTHER -> 0

Alert(type, severity, message) ==
    [type |-> type, severity |-> severity, message |-> message]

(***************************************************************************)
(* Eye closure (detectionEngine.ts:285-306).                               *)
(***************************************************************************)
AverageEAR(f) == (f.leftEAR + f.rightEAR) \div 2

\* irisYNormalized <= 0.5
IrisVisible(f) == f.irisY <= 500

EyeQualifies(f, cfg) ==
    AverageEAR(f) < cfg.earThreshold /\ ~IrisVisible(f)

\* variant: the severe tier is reported once, on the frame that passes 30
EyeTierSevereOnce(c, cfg) ==
    IF c = 31 THEN "alert"
    ELSE IF c > cfg.eyeClosedFramesThreshold THEN "warning"
    ELSE "normal"

\* variant: the moderate tier compared with >= instead of >
EyeTierInclusive(c, cfg) ==
    IF c > 30 THEN "alert"
    ELSE IF c >= cfg.eyeClosedFramesThreshold THEN "warning"
    ELSE "normal"

\* result.eyeClosure.severity for a qualifying frame, given the incremented counter
EyeTier(c, cfg) ==
    IF c > 30 THEN "alert"
    ELSE IF c > cfg.eyeClosedFramesThreshold THEN "warning"
    ELSE "normal"

EyeAlerts(tier) ==
    IF tier = "alert"
        THEN <<Alert("eye_closure", "severe", "Alert: Eyes Closed Too Long")>>
    ELSE IF tier = "warning"
        THEN <<Alert("eye_closure", "moderate", "Warning: Eyes Closed")>>
    ELSE <<>>

\* variant: the counter is not reset when the eyes reopen
NextEyeCounterKept(c, q) == IF q THEN c + 1 ELSE c

NextEyeCounter(c, q) == IF q THEN c + 1 ELSE 0

\* variant: a run of a single frame counts as a blink
NextBlinkCounterAnyRun(b, c, q, cfg) ==
    IF ~q /\ c >= 1 /\ c < cfg.eyeClosedFramesThreshold THEN b + 1 ELSE b

NextBlinkCounter(b, c, q, cfg) ==
    IF ~q /\ c >= 2 /\ c < cfg.eyeClosedFramesThreshold THEN b + 1 ELSE b

(***************************************************************************)
(* Blink-rate window (detectionEngine.ts:308-315).                         *)
(***************************************************************************)
WindowClosed(t, timer) == t - timer > 60000

BlinkAlerts(closed, b, cfg) ==
    IF closed /\ b >= cfg.blinkRateThreshold
        THEN <<Alert("blink_rate_high", "mild", "High Blinking Rate")>>
    ELSE <<>>

(***************************************************************************)
(* Yawning (detectionEngine.ts:317-334).                                   *)
(***************************************************************************)
\* variant: every frame with a face counts towards the yawn
YawnCountAnyFrame(y, f, cfg) == y + 1

YawnCount(y, f, cfg) == IF f.mar > cfg.marThreshold THEN y + 1 ELSE y

\* variant: the yawn fires when the counter reaches the threshold
IsYawningInclusive(y1, cfg) == y1 >= cfg.yawnThreshold

IsYawning(y1, cfg) == y1 > cfg.yawnThreshold

YawnAlerts(yawning) ==
    IF yawning THEN <<Alert("yawning", "moderate", "Warning: Yawning")>> ELSE <<>>

\* this.marHistory.push(mar); this.marHistory.shift()
PushMar(h, mar) == Tail(Append(h, mar))

(***************************************************************************)
(* Head pose and gaze (detectionEngine.ts:336-408).                        *)
(***************************************************************************)
PoseActive(calibrated, cal) == calibrated /\ cal # NoCalibration

\* variant: the mild and moderate branches exchanged
HeadTurnTierSwapped(d, cfg) ==
    IF d > cfg.headTurnThreshold
        THEN IF d < 100 THEN "moderate" ELSE IF d < 200 THEN "mild" ELSE "severe"
    ELSE "none"

\* variant: an offset of exactly 0.1 is still mild
HeadTurnTierLateModerate(d, cfg) ==
    IF d > cfg.headTurnThreshold
        THEN IF d <= 100 THEN "mild" ELSE IF d < 200 THEN "moderate" ELSE "severe"
    ELSE "none"

HeadTurnTier(d, cfg) ==
    IF d > cfg.headTurnThreshold
        THEN IF d < 100 THEN "mild" ELSE IF d < 200 THEN "moderate" ELSE "severe"
    ELSE "none"

\* variant: the upward tiers are not gated on headTurnThreshold
UpwardTierUngated(d, cfg) ==
    IF d > 0
        THEN IF d < 80 THEN "mild" ELSE IF d < 150 THEN "moderate" ELSE "severe"
    ELSE "none"

UpwardTier(d, cfg) ==
    IF d > cfg.headTurnThreshold
        THEN IF d < 80 THEN "mild" ELSE IF d < 150 THEN "moderate" ELSE "severe"
    ELSE "none"

\* variant: the droop tiers use the bounds of the upward tiers
DroopTierUpwardBounds(d, cfg) ==
    IF d > cfg.headTurnThreshold
        THEN IF d < 80 THEN "mild" ELSE IF d < 150 THEN "moderate" ELSE "severe"
    ELSE "none"

DroopTier(d, cfg) ==
    IF d > cfg.headTurnThreshold
        THEN IF d < 70 THEN "mild" ELSE IF d < 120 THEN "moderate" ELSE "severe"
    ELSE "none"

GazeTier(d, cfg) ==
    IF d > cfg.gazeDeviationThreshold
        THEN IF d < 100 THEN "mild" ELSE IF d < 200 THEN "moderate" ELSE "severe"
    ELSE "none"

Capital(level) ==
    CASE level = "mild" -> "Mild"
      [] level = "moderate" -> "Moderate"
      [] level = "severe" -> "Severe"

TurnAlerts(level) ==
    IF level = "none" THEN <<>>
    ELSE <<Alert("head_turn", level, Capital(level) \o " Head Turn")>>

UpwardAlerts(level) ==
    IF level = "none" THEN <<>>
    ELSE <<Alert("head_turn", level, Capital(level) \o " Looking Upward")>>

DroopAlerts(level) ==
    IF level = "none" THEN <<>>
    ELSE <<Alert("head_droop", level,
                 CASE level = "mild" -> "Head drooping symptom"
                   [] level = "moderate" -> "Head drooping started"
                   [] level = "severe" -> "Head drooped")>>

GazeAlerts(level) ==
    IF level = "none" THEN <<>>
    ELSE <<Alert("gaze_deviation", level, Capital(level) \o " Gaze Deviation")>>

(***************************************************************************)
(* Hands (detectionEngine.ts:116-178, 410-432).  A hand carries            *)
(*   earDist  : least pixel distance of its landmarks to either ear tip,   *)
(*   faceDist : least pixel distance of its landmarks to the nose tip,     *)
(*   cx, cy   : its centroid, normalised.                                  *)
(***************************************************************************)
IsHandNearEar(hand) == hand.earDist < 40

IsHandNearFace(hand, cfg) == hand.faceDist < cfg.handNearFaceDistance

\* variant: the first two hands are compared, however many there are
DetectTextingFirstTwo(hands) ==
    /\ Len(hands) >= 2
    /\ hands[1].cy > 600 /\ hands[2].cy > 600
    /\   (hands[1].cx - hands[2].cx) * (hands[1].cx - hands[2].cx)
       + (hands[1].cy - hands[2].cy) * (hands[1].cy - hands[2].cy) < 350 * 350

DetectTexting(hands) ==
    /\ Len(hands) = 2
    /\ hands[1].cy > 600 /\ hands[2].cy > 600
    /\   (hands[1].cx - hands[2].cx) * (hands[1].cx - hands[2].cx)
       + (hands[1].cy - hands[2].cy) * (hands[1].cy - hands[2].cy) < 350 * 350

\* variant: only the first hand is looked at
HandAlertsFirstHand(hands, cfg) ==
    IF hands = <<>> THEN <<>>
    ELSE (IF IsHandNearEar(Head(hands))
              THEN <<Alert("phone_usage", "moderate", "Likely mobile call")>> ELSE <<>>)
         \o (IF IsHandNearFace(Head(hands), cfg)
              THEN <<Alert("hand_near_face", "mild", "Hand near the face")>> ELSE <<>>)

\* the for-loop over handResults: per hand, phone_usage then hand_near_face
RECURSIVE HandAlerts(_, _)
HandAlerts(hands, cfg) ==
    IF hands = <<>> THEN <<>>
    ELSE (IF IsHandNearEar(Head(hands))
              THEN <<Alert("phone_usage", "moderate", "Likely mobile call")>> ELSE <<>>)
         \o (IF IsHandNearFace(Head(hands), cfg)
              THEN <<Alert("hand_near_face", "mild", "Hand near the face")>> ELSE <<>>)
         \o HandAlerts(Tail(hands), cfg)

TextingAlerts(texting) ==
    IF texting THEN <<Alert("texting", "severe", "Possible texting observed")>> ELSE <<>>

(***************************************************************************)
(* Composite assessment (detectionEngine.ts:434-461).                      *)
(***************************************************************************)
EyeClosureSeverity(sev) == IF sev = "alert" THEN 2 ELSE IF sev = "warning" THEN 1 ELSE 0

\* variant: the eyes alone decide, no secondary indicator is asked for
DrowsinessLevelEyesOnly(eyeSev, droopSev, yawning) ==
    IF eyeSev >= 2 THEN "severe"
    ELSE IF eyeSev >= 1 THEN "moderate"
    ELSE "none"

\* variant: yawning is not a secondary indicator
DrowsinessLevelDroopOnly(eyeSev, droopSev, yawning) ==
    IF eyeSev >= 2 /\ droopSev >= 1 THEN "severe"
    ELSE IF eyeSev >= 1 /\ droopSev >= 1 THEN "moderate"
    ELSE "none"

DrowsinessLevel(eyeSev, droopSev, yawning) ==
    IF eyeSev >= 2 /\ (droopSev >= 1 \/ yawning) THEN "severe"
    ELSE IF eyeSev >= 1 /\ (droopSev >= 1 \/ yawning) THEN "moderate"
    ELSE "none"

DrowsinessAlerts(level) ==
    IF level = "none" THEN <<>>
    ELSE <<Alert("drowsiness", level, Capital(level) \o " DROWSINESS Observed")>>

\* variant: an upward tilt does not count as head movement
DistractionLevelTurnOnly(turnSev, tiltSev, handsNotFree) ==
    IF turnSev >= 2 /\ handsNotFree THEN "severe"
    ELSE IF turnSev >= 1 /\ handsNotFree THEN "moderate"
    ELSE "none"

DistractionLevel(turnSev, tiltSev, handsNotFree) ==
    IF (turnSev >= 2 \/ tiltSev >= 2) /\ handsNotFree THEN "severe"
    ELSE IF (turnSev >= 1 \/ tiltSev >= 1) /\ handsNotFree THEN "moderate"
    ELSE "none"

DistractionAlerts(level) ==
    IF level = "none" THEN <<>>
    ELSE <<Alert("distraction", level, Capital(level) \o " DISTRACTION Observed")>>

(***************************************************************************)
(* processFrame (detectionEngine.ts:193-464).                              *)
(***************************************************************************)
\* variant: the gaze default at the origin instead of the centre
InitialResultGazeOrigin(c, y) ==
    [ eyeClosure  |-> [leftEAR |-> 0, rightEAR |-> 0, averageEAR |-> 0,
                       isEyesClosed |-> FALSE, closureFrames |-> c,
                       severity |-> "normal"],
      headPose    |-> [x |-> 0, y |-> 0, turn |-> "none", tilt |-> "none",
                       droop |-> "none"],
      gaze        |-> [x |-> 0, y |-> 0, deviation |-> 0, lookingAway |-> FALSE],
      mouth       |-> [MAR |-> 0, isYawning |-> FALSE, yawnCount |-> y],
      hands       |-> [nearEar |-> FALSE, nearFace |-> FALSE,
                       possibleTexting |-> FALSE, phoneUsage |-> FALSE],
      drowsiness  |-> "none",
      distraction |-> "none" ]

\* the result object as initialised at lines 203-247
InitialResult(c, y) ==
    [ eyeClosure  |-> [leftEAR |-> 0, rightEAR |-> 0, averageEAR |-> 0,
                       isEyesClosed |-> FALSE, closureFrames |-> c,
                       severity |-> "normal"],
      headPose    |-> [x |-> 0, y |-> 0, turn |-> "none", tilt |-> "none",
                       droop |-> "none"],
      gaze        |-> [x |-> 500, y |-> 500, deviation |-> 0, lookingAway |-> FALSE],
      mouth       |-> [MAR |-> 0, isYawning |-> FALSE, yawnCount |-> y],
      hands       |-> [nearEar |-> FALSE, nearFace |-> FALSE,
                       possibleTexting |-> FALSE, phoneUsage |-> FALSE],
      drowsiness  |-> "none",
      distraction |-> "none" ]

NoFrame == [none |-> TRUE]

\* nothing counted towards a yawn, and nothing discarded, since the yawn last fired
NoYawnRun == [frames |-> 0, disturbed |-> FALSE]

\* variant: only the first subscriber is called
DeliverFirstOnly(n, alerts) == [s \in 1..n |-> IF s = 1 THEN alerts ELSE <<>>]

\* this.alertCallbacks.forEach(callback => callback(alert)), for each alert of a call
Deliver(n, alerts) == [s \in 1..n |-> alerts]

\* variant: a frame without a face ends the eye-closure run
ProcessNoFaceEndsRun(f) ==
    /\ frame' = f
    /\ result' = InitialResult(eyeClosureCounter, yawnCounter)
    /\ emitted' = <<>>
    /\ received' = Deliver(alertCallbacks, <<>>)
    /\ eyeClosureCounter' = 0
    /\ UNCHANGED <<config, blinkCounter, yawnCounter,
                   blinkTimer, marHistory, calibrationData, isCalibrated,
                   alertCallbacks, yawnRun, now, processorVars, syncVars>>

\* lines 249-251: early return, nothing touched
ProcessNoFace(f) ==
    /\ frame' = f
    /\ result' = InitialResult(eyeClosureCounter, yawnCounter)
    /\ emitted' = <<>>
    /\ received' = Deliver(alertCallbacks, <<>>)
    /\ UNCHANGED <<config, eyeClosureCounter, blinkCounter, yawnCounter,
                   blinkTimer, marHistory, calibrationData, isCalibrated,
                   alertCallbacks, yawnRun, now, processorVars, syncVars>>

ProcessFrame(f) ==
    IF ~f.face
    THEN ProcessNoFace(f)
    ELSE
      LET q        == EyeQualifies(f, config)
          c1       == NextEyeCounter(eyeClosureCounter, q)
          tier     == IF q THEN EyeTier(c1, config) ELSE "normal"
          b1       == NextBlinkCounter(blinkCounter, eyeClosureCounter, q, config)
          closed   == WindowClosed(now, blinkTimer)
          y1       == YawnCount(yawnCounter, f, config)
          yawning  == IsYawning(y1, config)
          active   == PoseActive(isCalibrated, calibrationData)
          xOff     == IF active THEN Abs(f.headX - calibrationData.headCenterX) ELSE 0
          yOff     == IF active THEN Abs(f.headY - calibrationData.headCenterY) ELSE 0
          upward   == active /\ f.headY < calibrationData.headCenterY
          turn     == IF active THEN HeadTurnTier(xOff, config) ELSE "none"
          tilt     == IF active /\ upward THEN UpwardTier(yOff, config) ELSE "none"
          droop    == IF active /\ ~upward THEN DroopTier(yOff, config) ELSE "none"
          gazeOff  == IF active THEN Abs(f.irisX - calibrationData.gazeCenter) ELSE 0
          gazeLvl  == IF active THEN GazeTier(gazeOff, config) ELSE "none"
          nearEar  == \E i \in 1..Len(f.hands) : IsHandNearEar(f.hands[i])
          nearFace == \E i \in 1..Len(f.hands) : IsHandNearFace(f.hands[i], config)
          texting  == Len(f.hands) > 0 /\ DetectTexting(f.hands)
          drowsy   == DrowsinessLevel(EyeClosureSeverity(tier), Rank(droop), yawning)
          distr    == DistractionLevel(Rank(turn), Rank(tilt),
                                       nearEar \/ nearFace \/ texting)
          alerts   == EyeAlerts(tier)
                      \o BlinkAlerts(closed, b1, config)
                      \o YawnAlerts(yawning)
                      \o TurnAlerts(turn) \o UpwardAlerts(tilt) \o DroopAlerts(droop)
                      \o GazeAlerts(gazeLvl)
                      \o HandAlerts(f.hands, config) \o TextingAlerts(texting)
                      \o DrowsinessAlerts(drowsy) \o DistractionAlerts(distr)
          seen     == IF f.mar > config.marThreshold /\ yawnRun.frames < MaxYawnFrames
                          THEN yawnRun.frames + 1 ELSE yawnRun.frames
      IN /\ c1 <= MaxClosure
         /\ b1 <= MaxBlinks
         /\ yawnRun' = IF yawning THEN NoYawnRun
                       ELSE [yawnRun EXCEPT !.frames = seen]
         /\ eyeClosureCounter' = c1
         /\ blinkCounter' = IF closed THEN 0 ELSE b1
         /\ blinkTimer' = IF closed THEN now ELSE blinkTimer
         /\ yawnCounter' = IF yawning THEN 0 ELSE y1
         /\ marHistory' = PushMar(marHistory, f.mar)
         /\ frame' = f
         /\ result' =
              [ eyeClosure  |-> [leftEAR |-> f.leftEAR, rightEAR |-> f.rightEAR,
                                 averageEAR |-> AverageEAR(f),
                                 isEyesClosed |-> tier # "normal",
                                 closureFrames |-> eyeClosureCounter,
                                 severity |-> tier],
                headPose    |-> [x |-> f.headX, y |-> f.headY, turn |-> turn,
                                 tilt |-> tilt, droop |-> droop],
                gaze        |-> [x |-> IF active THEN f.irisX ELSE 500, y |-> 500,
                                 deviation |-> gazeOff,
                                 lookingAway |-> gazeLvl # "none"],
                mouth       |-> [MAR |-> f.mar, isYawning |-> yawning,
                                 yawnCount |-> yawnCounter],
                hands       |-> [nearEar |-> nearEar, nearFace |-> nearFace,
                                 possibleTexting |-> texting, phoneUsage |-> nearEar],
                drowsiness  |-> drowsy,
                distraction |-> distr ]
         /\ emitted' = alerts
         /\ received' = Deliver(alertCallbacks, alerts)
         /\ UNCHANGED <<config, calibrationData, isCalibrated, alertCallbacks, now, processorVars, syncVars>>

(***************************************************************************)
(* The other operations of the engine.  They return nothing and call no    *)
(* subscriber.                                                             *)
(***************************************************************************)
NoResult == [none |-> TRUE]

Void ==
    /\ frame' = NoFrame
    /\ result' = NoResult
    /\ emitted' = <<>>
    /\ received' = Deliver(alertCallbacks, <<>>)

\* setConfig (detectionEngine.ts:35-37)
SetConfig(p) ==
    /\ config' = MergeConfig(config, p)
    /\ yawnRun' = [yawnRun EXCEPT !.disturbed =
                       @ \/ MergeConfig(config, p).yawnThreshold # config.yawnThreshold]
    /\ Void
    /\ UNCHANGED <<eyeClosureCounter, blinkCounter, yawnCounter, blinkTimer,
                   marHistory, calibrationData, isCalibrated, alertCallbacks, now, processorVars, syncVars>>

\* variant: the snapshot is stored and the flag is not raised
SetCalibrationNoFlag(gazeCenter, headCenterX, headCenterY) ==
    /\ calibrationData' = [gazeCenter |-> gazeCenter, headCenterX |-> headCenterX,
                           headCenterY |-> headCenterY]
    /\ Void
    /\ UNCHANGED <<config, eyeClosureCounter, blinkCounter, yawnCounter, blinkTimer,
                   marHistory, isCalibrated, alertCallbacks, yawnRun, now, processorVars, syncVars>>

\* setCalibration (detectionEngine.ts:39-42)
SetCalibration(gazeCenter, headCenterX, headCenterY) ==
    /\ calibrationData' = [gazeCenter |-> gazeCenter, headCenterX |-> headCenterX,
                           headCenterY |-> headCenterY]
    /\ isCalibrated' = TRUE
    /\ Void
    /\ UNCHANGED <<config, eyeClosureCounter, blinkCounter, yawnCounter, blinkTimer,
                   marHistory, alertCallbacks, yawnRun, now, processorVars, syncVars>>

\* addAlertCallback (detectionEngine.ts:44-46)
AddAlertCallback ==
    /\ alertCallbacks < MaxSubs
    /\ alertCallbacks' = alertCallbacks + 1
    /\ frame' = NoFrame
    /\ result' = NoResult
    /\ emitted' = <<>>
    /\ received' = Deliver(alertCallbacks + 1, <<>>)
    /\ UNCHANGED <<config, eyeClosureCounter, blinkCounter, yawnCounter, blinkTimer,
                   marHistory, calibrationData, isCalibrated, yawnRun, now, processorVars, syncVars>>

\* variant: a reset also forgets the calibration
ResetForgetsCalibration ==
    /\ eyeClosureCounter' = 0
    /\ blinkCounter' = 0
    /\ yawnCounter' = 0
    /\ blinkTimer' = now
    /\ marHistory' = [i \in 1..Len(marHistory) |-> 0]
    /\ yawnRun' = [yawnRun EXCEPT !.disturbed = @ \/ yawnCounter > 0]
    /\ calibrationData' = NoCalibration
    /\ isCalibrated' = FALSE
    /\ Void
    /\ UNCHANGED <<config, alertCallbacks, now, processorVars, syncVars>>

\* reset (detectionEngine.ts:466-472)
Reset ==
    /\ eyeClosureCounter' = 0
    /\ blinkCounter' = 0
    /\ yawnCounter' = 0
    /\ blinkTimer' = now
    /\ marHistory' = [i \in 1..Len(marHistory) |-> 0]
    /\ yawnRun' = [yawnRun EXCEPT !.disturbed = @ \/ yawnCounter > 0]
    /\ Void
    /\ UNCHANGED <<config, calibrationData, isCalibrated, alertCallbacks, now, processorVars, syncVars>>

\* wall-clock time passing between calls
Tick ==
    /\ now + TickMs <= StartTime + MaxTicks * TickMs
    /\ now' = now + TickMs
    /\ UNCHANGED <<engineVars, processorVars, syncVars>>

(***************************************************************************)
(* FaceDetectionProcessor (FaceDetectionProcessor.tsx, battery-aware        *)
(* version): constants and initial detectionState.                         *)
(***************************************************************************)
ALERT_COOLDOWN == 3000
DROWSY_FRAME_THRESHOLD == 8
YAWN_FRAME_THRESHOLD == 5
DISTRACTION_FRAME_THRESHOLD == 10
PHONE_FRAME_THRESHOLD == 5

InitialDetectionState ==
    [ drowsyFrameCount         |-> 0,
      yawnFrameCount           |-> 0,
      distractionFrameCount    |-> 0,
      phoneUseFrameCount       |-> 0,
      lastAlertTime            |-> 0,
      lastPhoneAlertTime       |-> 0,
      lastDistractionAlertTime |-> 0,
      calibratedEARThreshold   |-> 210,
      calibratedMARThreshold   |-> 600 ]

\* what trigger*Alert read of detectionState
AlertTimes(ds) ==
    [ lastAlertTime            |-> ds.lastAlertTime,
      lastPhoneAlertTime       |-> ds.lastPhoneAlertTime,
      lastDistractionAlertTime |-> ds.lastDistractionAlertTime ]

\* variant: the window compared with <= instead of <
SuppressedInclusive(t, last) == t - last <= ALERT_COOLDOWN

\* if (now - detectionState.last...AlertTime < ALERT_COOLDOWN) return;
Suppressed(t, last) == t - last < ALERT_COOLDOWN

\* variant: the decay without Math.max(0, ...)
DecayUnclamped(count, k) == count - k

\* Math.max(0, count - k)
Decay(count, k) == IF count - k > 0 THEN count - k ELSE 0

\* one detector of handleDetectionResults: the count after the frame and whether the
\* trigger function is called
CountAfter(count, active, threshold, decay) ==
    IF active
        THEN IF count + 1 > threshold THEN 0 ELSE count + 1
    ELSE Decay(count, decay)

Fires(count, active, threshold) == active /\ count + 1 > threshold

\* a call of a trigger function at time t: `seen` is the last-alert time the function
\* reads, `since` the time of the last alert its gate really dispatched, `after`
\* (kept for the drowsiness/yawn gate) whether the gate suppressed a call since then
TriggerCall(kind, t, seen, since, after) ==
    [kind |-> kind, at |-> t, since |-> since, afterSuppressed |-> after,
     dispatched |-> ~Suppressed(t, seen)]

\* the suppressedSince flag of a gate after one call on it
AfterCall(call) == ~call.dispatched

(***************************************************************************)
(* The effect on [isMonitoring] (lines 901-922) runs startProcessing of    *)
(* the render in which isMonitoring changed.  The interval (or MediaPipe)  *)
(* callback it installs calls that render's handleDetectionResults, whose  *)
(* trigger*Alert functions read that render's detectionState: the value    *)
(* at the time monitoring started, for as long as monitoring runs.         *)
(***************************************************************************)
StartMonitoring ==
    /\ ~isMonitoring
    /\ isMonitoring' = TRUE
    /\ captured' = AlertTimes(detectionState)
    /\ UNCHANGED <<detectionState, triggerCalls, suppressedSince, engineVars, now, syncVars>>

StopMonitoring ==
    /\ isMonitoring
    /\ isMonitoring' = FALSE
    /\ UNCHANGED <<detectionState, captured, triggerCalls, suppressedSince, engineVars, now, syncVars>>

\* handleDetectionResults (lines 1001-1079) with the trigger functions it calls
\* (lines 1081-1139).  The updater works on prev, the current detectionState; the
\* setDetectionState calls of the trigger functions are applied after it.
HandleDetectionResults(d) ==
    /\ isMonitoring
    /\ IF ~d.hasData
       THEN /\ triggerCalls' = <<>>
            /\ UNCHANGED <<detectionState, suppressedSince>>
       ELSE
         LET prev    == detectionState
             earLow  == d.avgEAR < prev.calibratedEARThreshold
             marHigh == d.MAR > prev.calibratedMARThreshold
             fireD   == Fires(prev.drowsyFrameCount, earLow, DROWSY_FRAME_THRESHOLD)
             fireY   == Fires(prev.yawnFrameCount, marHigh, YAWN_FRAME_THRESHOLD)
             fireP   == Fires(prev.phoneUseFrameCount, d.nearEar, PHONE_FRAME_THRESHOLD)
             fireX   == Fires(prev.distractionFrameCount, d.isDistracted,
                              DISTRACTION_FRAME_THRESHOLD)
             callD   == TriggerCall("drowsy", now, captured.lastAlertTime,
                                    prev.lastAlertTime, suppressedSince)
             sinceY  == IF fireD /\ callD.dispatched THEN now ELSE prev.lastAlertTime
             afterY  == IF fireD THEN AfterCall(callD) ELSE suppressedSince
             callY   == TriggerCall("yawn", now, captured.lastAlertTime, sinceY, afterY)
             callP   == TriggerCall("phoneUse", now, captured.lastPhoneAlertTime,
                                    prev.lastPhoneAlertTime, FALSE)
             callX   == TriggerCall("distracted", now, captured.lastDistractionAlertTime,
                                    prev.lastDistractionAlertTime, FALSE)
         IN /\ triggerCalls' =
                   (IF fireD THEN <<callD>> ELSE <<>>)
                \o (IF fireY THEN <<callY>> ELSE <<>>)
                \o (IF fireP THEN <<callP>> ELSE <<>>)
                \o (IF fireX THEN <<callX>> ELSE <<>>)
            /\ detectionState' =
                 [ prev EXCEPT
                     !.drowsyFrameCount =
                         CountAfter(@, earLow, DROWSY_FRAME_THRESHOLD, 2),
                     !.yawnFrameCount =
                         CountAfter(@, marHigh, YAWN_FRAME_THRESHOLD, 1),
                     !.phoneUseFrameCount =
                         CountAfter(@, d.nearEar, PHONE_FRAME_THRESHOLD, 1),
                     !.distractionFrameCount =
                         CountAfter(@, d.isDistracted, DISTRACTION_FRAME_THRESHOLD, 1),
                     !.lastAlertTime =
                         IF (fireD /\ callD.dispatched) \/ (fireY /\ callY.dispatched)
                             THEN now ELSE @,
                     !.lastPhoneAlertTime =
                         IF fireP /\ callP.dispatched THEN now ELSE @,
                     !.lastDistractionAlertTime =
                         IF fireX /\ callX.dispatched THEN now ELSE @ ]
            /\ suppressedSince' =
                   IF fireY THEN AfterCall(callY)
                   ELSE IF fireD THEN AfterCall(callD)
                   ELSE suppressedSince
    /\ UNCHANGED <<isMonitoring, captured, engineVars, now, syncVars>>

ProcessorTick ==
    /\ now + ProcessorTickMs <= StartTime + MaxTicks * ProcessorTickMs
    /\ now' = now + ProcessorTickMs
    /\ UNCHANGED <<engineVars, processorVars, syncVars>>

(***************************************************************************)
(* Inputs.                                                                 *)
(***************************************************************************)
NoFaceFrame ==
    [face |-> FALSE, leftEAR |-> 0, rightEAR |-> 0, irisX |-> 500, irisY |-> 0,
     mar |-> 0, headX |-> 500, headY |-> 500, hands |-> <<>>]

\* no face, a hand at the ear in view
NoFaceHandFrame ==
    [face |-> FALSE, leftEAR |-> 0, rightEAR |-> 0, irisX |-> 500, irisY |-> 0,
     mar |-> 0, headX |-> 500, headY |-> 500, hands |-> <<[earDist |-> 30,
     faceDist |-> 250, cx |-> 850, cy |-> 300]>>]

\* eyes open, mouth shut, head and gaze at the usual centre, no hands
NeutralFrame ==
    [face |-> TRUE, leftEAR |-> 300, rightEAR |-> 300, irisX |-> 500, irisY |-> 400,
     mar |-> 300, headX |-> 500, headY |-> 500, hands |-> <<>>]

\* <<leftEAR, rightEAR, irisY>>: closed and hidden; EAR at the threshold; iris at the
\* visibility boundary; open
EyeInputs == { <<100, 100, 600>>, <<140, 140, 600>>, <<100, 100, 500>>, <<300, 300, 400>> }

\* every eye input with the mouth at the MAR threshold (not above it); closed and
\* open eyes with the mouth wide open
EyeFrames ==
         { [NeutralFrame EXCEPT !.leftEAR = e[1], !.rightEAR = e[2], !.irisY = e[3],
                                !.mar = 600] : e \in EyeInputs }
    \cup { [NeutralFrame EXCEPT !.leftEAR = e[1], !.rightEAR = e[2], !.irisY = e[3],
                                !.mar = 700] : e \in { <<100, 100, 600>>, <<300, 300, 400>> } }

\* head and hands inputs.  The calibrated centre is usually (500, 500).
HeadXInputs == { 410, 500, 580, 590, 600, 700 }

HeadYInputs == { 350, 410, 430, 500, 565, 590, 620 }

GazeInputs == { 440, 500, 550, 560, 600, 700 }

EarHand  == [earDist |-> 30,  faceDist |-> 250, cx |-> 850, cy |-> 300]
FaceHand == [earDist |-> 40,  faceDist |-> 150, cx |-> 500, cy |-> 550]
FarHand  == [earDist |-> 300, faceDist |-> 200, cx |-> 200, cy |-> 600]
LowLeft  == [earDist |-> 400, faceDist |-> 350, cx |-> 400, cy |-> 800]
LowRight == [earDist |-> 400, faceDist |-> 350, cx |-> 600, cy |-> 800]
LowFar   == [earDist |-> 400, faceDist |-> 350, cx |-> 750, cy |-> 800]

HandInputs ==
    { <<>>, <<EarHand>>, <<FaceHand>>, <<FarHand>>, <<EarHand, FaceHand>>,
      <<EarHand, EarHand>>, <<FaceHand, FaceHand>>, <<LowLeft, LowRight>>,
      <<LowLeft, LowFar>>, <<LowLeft>>, <<LowLeft, LowRight, FarHand>> }

\* eyes open: the head turned, raised or dropped; the gaze moved; hands in view; a
\* turned or raised head with a hand in view
PoseFrames ==
         { [NeutralFrame EXCEPT !.headX = x] : x \in HeadXInputs }
    \cup { [NeutralFrame EXCEPT !.headY = y] : y \in HeadYInputs }
    \cup { [NeutralFrame EXCEPT !.irisX = g] : g \in GazeInputs }
    \cup { [NeutralFrame EXCEPT !.hands = h] : h \in HandInputs }
    \cup { [NeutralFrame EXCEPT !.headX = x, !.hands = h] :
               x \in { 590, 600 }, h \in { <<FaceHand>>, <<LowLeft, LowRight>> } }
    \cup { [NeutralFrame EXCEPT !.headY = y, !.hands = <<FaceHand>>] :
               y \in { 410, 430, 590 } }

\* eyes closed and hidden, the head level or dropped
ClosedFrames ==
    { [NeutralFrame EXCEPT !.leftEAR = 100, !.rightEAR = 100, !.irisY = 600,
                           !.headY = y] : y \in { 500, 590 } }

EyeConfigInputs ==
    { [eyeClosedFramesThreshold |-> 3, blinkRateThreshold |-> 2],
      [eyeClosedFramesThreshold |-> 9, blinkRateThreshold |-> 5] }

PoseConfigInputs ==
    { [headTurnThreshold |-> 60],
      [headTurnThreshold |-> 80] }

CalibrationInputs == { <<500, 500, 500>>, <<450, 400, 600>> }

(***************************************************************************)
(* Initial state.                                                          *)
(***************************************************************************)
\* the engine as constructed (detectionEngine.ts:16-33)
InitEngine ==
    /\ config = DEFAULT_CONFIG
    /\ eyeClosureCounter = 0
    /\ blinkCounter = 0
    /\ yawnCounter = 0
    /\ blinkTimer = StartTime
    /\ marHistory = [i \in 1..HistLen |-> 0]
    /\ calibrationData = NoCalibration
    /\ isCalibrated = FALSE
    /\ alertCallbacks = 0
    /\ frame = NoFrame
    /\ result = NoResult
    /\ emitted = <<>>
    /\ received = <<>>
    /\ yawnRun = NoYawnRun

\* the component as first rendered, not monitoring (useState, lines 874-886)
InitProcessor ==
    /\ isMonitoring = FALSE
    /\ detectionState = InitialDetectionState
    /\ captured = AlertTimes(InitialDetectionState)
    /\ triggerCalls = <<>>
    /\ suppressedSince = FALSE

(***************************************************************************)
(* SyncService (src/unnamed/part_013:329-725).  A syncPendingData run is   *)
(* asynchronous: it starts inside the call and proceeds, one awaited step   *)
(* at a time, between the other events.                                     *)
(***************************************************************************)
\* variant: the guard does not look at isSyncing
SyncRejectedIgnoringRun(online, syncing, token) == ~online \/ ~token

\* !this.isOnline || this.isSyncing || !this.authToken (line 413)
SyncRejected(online, syncing, token) == ~online \/ syncing \/ ~token

\* no syncPendingData call in this step
NoSyncCall ==
    /\ syncCall' = "none"
    /\ UNCHANGED <<isSyncing, syncRuns>>

\* syncPendingData up to its first await (lines 412-428), called with isOnline = online
SyncPendingData(online) ==
    IF SyncRejected(online, isSyncing, authToken)
        THEN /\ syncCall' = "rejected"
             /\ UNCHANGED <<isSyncing, syncRuns>>
        ELSE /\ syncCall' = "started"
             /\ isSyncing' = TRUE
             /\ syncRuns' = Append(syncRuns, "sessions")

\* startAutoSync (lines 384-403)
StartAutoSync(online) ==
    /\ syncTimer' = TRUE
    /\ IF online /\ ~isSyncing THEN SyncPendingData(online) ELSE NoSyncCall

\* stopAutoSync (lines 405-410)
StopAutoSync == syncTimer' = FALSE

\* the NetInfo listener (lines 359-372)
NetworkEvent(connected) ==
    /\ isOnline' = connected
    /\ IF ~isOnline /\ connected /\ autoSyncEnabled
           THEN StartAutoSync(connected)
       ELSE IF ~connected
           THEN StopAutoSync /\ NoSyncCall
       ELSE UNCHANGED syncTimer /\ NoSyncCall
    /\ UNCHANGED <<authToken, autoSyncEnabled, tokenLoading, engineVars, processorVars, now>>

\* updateConfig (lines 374-382)
UpdateConfig(auto) ==
    /\ autoSyncEnabled' = auto
    /\ IF auto /\ isOnline THEN StartAutoSync(isOnline) ELSE StopAutoSync /\ NoSyncCall
    /\ UNCHANGED <<isOnline, authToken, tokenLoading, engineVars, processorVars, now>>

\* the setInterval callback (lines 389-395)
SyncTimerFires ==
    /\ syncTimer
    /\ IF isOnline /\ ~isSyncing THEN SyncPendingData(isOnline) ELSE NoSyncCall
    /\ UNCHANGED <<isOnline, syncTimer, authToken, autoSyncEnabled, tokenLoading,
                   engineVars, processorVars, now>>

\* forcSync / a direct syncPendingData call (lines 630-632)
ForcSync ==
    /\ SyncPendingData(isOnline)
    /\ UNCHANGED <<isOnline, syncTimer, authToken, autoSyncEnabled, tokenLoading,
                   engineVars, processorVars, now>>

\* setAuthToken (lines 354-357)
SetAuthToken ==
    /\ authToken' = TRUE
    /\ NoSyncCall
    /\ UNCHANGED <<isOnline, syncTimer, autoSyncEnabled, tokenLoading,
                   engineVars, processorVars, now>>

\* loadAuthToken resolving (lines 345-352): the stored token, or undefined
LoadAuthToken(stored) ==
    /\ tokenLoading
    /\ tokenLoading' = FALSE
    /\ authToken' = stored
    /\ NoSyncCall
    /\ UNCHANGED <<isOnline, syncTimer, autoSyncEnabled, engineVars, processorVars, now>>

Remove(runs, i) == [j \in 1..(Len(runs) - 1) |-> IF j < i THEN runs[j] ELSE runs[j + 1]]

\* one awaited step of run i returns (lines 428-446); after syncMetrics the finally
\* block runs (lines 450-452)
SyncRunStep(i) ==
    /\ i \in DOMAIN syncRuns
    /\ IF syncRuns[i] = "sessions"
           THEN syncRuns' = [syncRuns EXCEPT ![i] = "alerts"] /\ UNCHANGED isSyncing
       ELSE IF syncRuns[i] = "alerts"
           THEN syncRuns' = [syncRuns EXCEPT ![i] = "metrics"] /\ UNCHANGED isSyncing
       ELSE syncRuns' = Remove(syncRuns, i) /\ isSyncing' = FALSE
    /\ syncCall' = "none"
    /\ UNCHANGED <<isOnline, syncTimer, authToken, autoSyncEnabled, tokenLoading,
                   engineVars, processorVars, now>>

\* an awaited step of run i throws: catch (447-449), then finally (450-452)
SyncRunThrows(i) ==
    /\ i \in DOMAIN syncRuns
    /\ syncRuns' = Remove(syncRuns, i)
    /\ isSyncing' = FALSE
    /\ syncCall' = "none"
    /\ UNCHANGED <<isOnline, syncTimer, authToken, autoSyncEnabled, tokenLoading,
                   engineVars, processorVars, now>>

\* cleanup (lines 719-721)
SyncCleanup ==
    /\ StopAutoSync
    /\ NoSyncCall
    /\ UNCHANGED <<isOnline, authToken, autoSyncEnabled, tokenLoading,
                   engineVars, processorVars, now>>

\* new SyncService(apiBaseUrl) with DEFAULT_CONFIG (lines 321-343)
InitSync ==
    /\ isOnline = FALSE
    /\ isSyncing = FALSE
    /\ syncTimer = FALSE
    /\ authToken = FALSE
    /\ autoSyncEnabled = TRUE
    /\ tokenLoading = TRUE
    /\ syncRuns = <<>>
    /\ syncCall = "none"

Init == InitEngine /\ InitProcessor /\ InitSync /\ now = StartTime

vars == <<engineVars, processorVars, syncVars, now>>

(***************************************************************************)
(* Spec: the engine fed eye and mouth metrics over time (the temporal      *)
(* classifiers and the blink-rate window).                                 *)
(***************************************************************************)
Next ==
    \/ \E f \in EyeFrames \cup {NoFaceFrame} : ProcessFrame(f)
    \/ \E p \in EyeConfigInputs : SetConfig(p)
    \/ Reset
    \/ Tick

Spec == Init /\ [][Next]_vars

(***************************************************************************)
(* SpecPose: the engine fed head, gaze and hand positions, calibrated or   *)
(* not (the calibration-relative classifiers and the composite assessor).  *)
(***************************************************************************)
NextPose ==
    \/ \E f \in PoseFrames \cup ClosedFrames \cup {NoFaceFrame, NoFaceHandFrame} :
           ProcessFrame(f)
    \/ \E p \in PoseConfigInputs : SetConfig(p)
    \/ \E c \in CalibrationInputs : SetCalibration(c[1], c[2], c[3])
    \/ Reset

SpecPose == Init /\ [][NextPose]_vars

(***************************************************************************)
(* SpecProcessor: the frame processor fed detection results while          *)
(* monitoring is switched on and off.                                      *)
(***************************************************************************)
\* nothing detected; eyes closing; yawning; both; a hand at the ear; the head turned
QuietResults ==
    [hasData |-> TRUE, avgEAR |-> 210, MAR |-> 600, nearEar |-> FALSE,
     isDistracted |-> FALSE]

DetectionInputs ==
    { QuietResults,
      [QuietResults EXCEPT !.avgEAR = 150],
      [QuietResults EXCEPT !.MAR = 700],
      [QuietResults EXCEPT !.avgEAR = 150, !.MAR = 700],
      [QuietResults EXCEPT !.nearEar = TRUE],
      [QuietResults EXCEPT !.isDistracted = TRUE],
      [QuietResults EXCEPT !.hasData = FALSE] }

NextProcessor ==
    \/ StartMonitoring
    \/ StopMonitoring
    \/ \E d \in DetectionInputs : HandleDetectionResults(d)
    \/ ProcessorTick

SpecProcessor == Init /\ [][NextProcessor]_vars

(***************************************************************************)
(* SpecConfig: the engine reconfigured between frames, one field at a      *)
(* time or wholesale.                                                      *)
(***************************************************************************)
ConfigInputs ==
    { [eyeClosedFramesThreshold |-> 3],
      [headTurnThreshold |-> 60],
      DEFAULT_CONFIG }

\* closed eyes; a head 0.07 right of the usual centre; the neutral frame
ConfigFrames ==
    ClosedFrames \cup { NeutralFrame, [NeutralFrame EXCEPT !.headX = 570] }

NextConfig ==
    \/ \E f \in ConfigFrames : ProcessFrame(f)
    \/ \E p \in ConfigInputs : SetConfig(p)
    \/ \E c \in CalibrationInputs : SetCalibration(c[1], c[2], c[3])
    \/ AddAlertCallback
    \/ Reset
    \/ Tick

SpecConfig == Init /\ [][NextConfig]_vars

(***************************************************************************)
(* SpecDrowsy: closed eyes with a dropped head or an open mouth, on an     *)
(* engine that is calibrated, recalibrated or reset between frames.        *)
(***************************************************************************)
\* closed eyes with the head level or dropped; closed eyes with the mouth open and
\* the head level; the neutral frame
DrowsyFrames ==
    ClosedFrames \cup { [NeutralFrame EXCEPT !.leftEAR = 100, !.rightEAR = 100,
                                             !.irisY = 600, !.mar = 700],
                        NeutralFrame }

NextDrowsy ==
    \/ \E f \in DrowsyFrames : ProcessFrame(f)
    \/ \E c \in CalibrationInputs : SetCalibration(c[1], c[2], c[3])
    \/ SetConfig([eyeClosedFramesThreshold |-> 3])
    \/ Reset

SpecDrowsy == Init /\ [][NextDrowsy]_vars

(***************************************************************************)
(* SpecYawn: the mouth opening and closing, with the yawn threshold        *)
(* changed and the engine reset between frames.                            *)
(***************************************************************************)
YawnFrames == { NeutralFrame, [NeutralFrame EXCEPT !.mar = 700], NoFaceFrame }

YawnConfigInputs == { [yawnThreshold |-> 1], [yawnThreshold |-> 3] }

NextYawn ==
    \/ \E f \in YawnFrames : ProcessFrame(f)
    \/ \E p \in YawnConfigInputs : SetConfig(p)
    \/ Reset

SpecYawn == Init /\ [][NextYawn]_vars

(***************************************************************************)
(* SpecSync: the sync service under network events, the auto-sync timer,   *)
(* manual sync calls, config updates and the steps of a run, interleaved.  *)
(***************************************************************************)
NextSync ==
    \/ \E connected \in BOOLEAN : NetworkEvent(connected)
    \/ \E auto \in BOOLEAN : UpdateConfig(auto)
    \/ SyncTimerFires
    \/ ForcSync
    \/ SetAuthToken
    \/ \E stored \in BOOLEAN : LoadAuthToken(stored)
    \/ \E i \in DOMAIN syncRuns : SyncRunStep(i)
    \/ \E i \in DOMAIN syncRuns : SyncRunThrows(i)
    \/ SyncCleanup

SpecSync == Init /\ [][NextSync]_vars

(***************************************************************************)
(* SpecAll: the engine and the frame processor side by side.  They share   *)
(* no state (the processor never calls the engine), so a behaviour runs    *)
(* one of them while the other stays as constructed.                       *)
(***************************************************************************)
EngineIdle == InitEngine

ProcessorIdle == InitProcessor /\ now = StartTime

NextEngine ==
    \/ \E f \in EyeFrames \cup {NoFaceFrame} : ProcessFrame(f)
    \/ \E p \in EyeConfigInputs : SetConfig(p)
    \/ \E c \in CalibrationInputs : SetCalibration(c[1], c[2], c[3])
    \/ Reset

NextAll ==
    \/ ProcessorIdle /\ NextEngine
    \/ EngineIdle /\ NextProcessor

SpecAll == Init /\ [][NextAll]_vars

(***************************************************************************)
(* Properties.                                                             *)
(***************************************************************************)
CountType(alerts, type) ==
    Cardinality({ i \in DOMAIN alerts : alerts[i].type = type })

HasAlert(alerts, type, severity) ==
    \E i \in DOMAIN alerts : alerts[i].type = type /\ alerts[i].severity = severity

\* the last call was processFrame on a frame with a face
FaceFrame == frame # NoFrame /\ frame.face

\* ... and that frame met the eye-closure condition
ClosedFrame == FaceFrame /\ EyeQualifies(frame, config)

\* this step is a processFrame call
FrameStep == frame' # NoFrame /\ ProcessFrame(frame')

\* C1 as stated: every dispatched alert of a cooldown-gated category comes at least
\* one cooldown window after the previous dispatched alert of that category.
C1_NoTwoWithinCooldown ==
    \A i \in DOMAIN triggerCalls :
        triggerCalls[i].dispatched
            => triggerCalls[i].at - triggerCalls[i].since >= ALERT_COOLDOWN

\* C2: a trigger call made at least one cooldown window after the last dispatched
\* alert of its category is dispatched; so a dispatched call, a suppressed call
\* inside the window and a call after the window give two dispatched alerts.
C2_DispatchedAfterWindow ==
    \A i \in DOMAIN triggerCalls :
        triggerCalls[i].at - triggerCalls[i].since >= ALERT_COOLDOWN
            => triggerCalls[i].dispatched

\* the third call of the scenario: an alert was dispatched before, a call inside its
\* window was suppressed, and this call, a window after that alert, is dispatched
C2_Witness ==
    \E i \in DOMAIN triggerCalls :
        /\ triggerCalls[i].since >= StartTime
        /\ triggerCalls[i].afterSuppressed
        /\ triggerCalls[i].at - triggerCalls[i].since >= ALERT_COOLDOWN
        /\ triggerCalls[i].dispatched

\* C3: with eyeClosedFramesThreshold = T < 30, a qualifying frame that brings the
\* counter to at most T emits no eye_closure alert, and the one that brings it to
\* T + 1 emits exactly one eye_closure alert, of severity moderate.
C3_ModerateAtThresholdPlusOne ==
    (ClosedFrame /\ config.eyeClosedFramesThreshold < 30) =>
        /\ eyeClosureCounter <= config.eyeClosedFramesThreshold
               => CountType(emitted, "eye_closure") = 0
        /\ eyeClosureCounter = config.eyeClosedFramesThreshold + 1
               => /\ CountType(emitted, "eye_closure") = 1
                  /\ HasAlert(emitted, "eye_closure", "moderate")

C3_Witness ==
    /\ ClosedFrame
    /\ config.eyeClosedFramesThreshold = 9
    /\ eyeClosureCounter = 10
    /\ result.eyeClosure.closureFrames = 9
    /\ HasAlert(emitted, "eye_closure", "moderate")

\* C4: under the default configuration, over twelve consecutive qualifying frames
\* the subscribers receive exactly one eye_closure alert, a moderate one, on the
\* tenth frame: none on frames 1-9 and none on frames 11 and 12.
C4_OneAlertInTwelveFrames ==
    (ClosedFrame /\ config = DEFAULT_CONFIG /\ eyeClosureCounter \in 1..12) =>
        \A s \in 1..alertCallbacks :
            /\ CountType(received[s], "eye_closure")
                   = (IF eyeClosureCounter = 10 THEN 1 ELSE 0)
            /\ eyeClosureCounter = 10 => HasAlert(received[s], "eye_closure", "moderate")

\* C5: a qualifying frame adds exactly one to eyeClosureCounter (so N consecutive
\* qualifying frames from 0 leave it at N), and a non-qualifying frame with a face
\* sets it to 0 whatever it was.
C5_CounterCountsRun ==
    [][ (FrameStep /\ frame'.face) =>
            IF EyeQualifies(frame', config)
                THEN eyeClosureCounter' = eyeClosureCounter + 1
                ELSE eyeClosureCounter' = 0 ]_vars

C5_Witness ==
    /\ FaceFrame
    /\ ~EyeQualifies(frame, config)
    /\ result.eyeClosure.closureFrames >= 12
    /\ eyeClosureCounter = 0

\* C6 as stated: the frame that ends a qualifying run of length L leaves blinkCounter
\* one higher when 2 <= L < eyeClosedFramesThreshold and unchanged otherwise, and
\* sets eyeClosureCounter to 0.
C6_BlinkCountedOnReopen ==
    [][ (FrameStep /\ frame'.face /\ ~EyeQualifies(frame', config)) =>
            /\ eyeClosureCounter' = 0
            /\ blinkCounter' =
                   IF eyeClosureCounter >= 2
                      /\ eyeClosureCounter < config.eyeClosedFramesThreshold
                       THEN blinkCounter + 1 ELSE blinkCounter ]_vars

\* C6 amended: the same, unless the 60 s blink window closes on that frame: then the
\* run is counted into the closing window and blinkCounter is 0 after the frame.
C6_BlinkCountedUnlessWindowCloses ==
    [][ (FrameStep /\ frame'.face /\ ~EyeQualifies(frame', config)) =>
            /\ eyeClosureCounter' = 0
            /\ blinkCounter' =
                   IF now - blinkTimer > 60000 THEN 0
                   ELSE IF eyeClosureCounter >= 2
                           /\ eyeClosureCounter < config.eyeClosedFramesThreshold
                       THEN blinkCounter + 1 ELSE blinkCounter ]_vars

\* a run of 2 (threshold 3) ended on the frame that closes the window: the blink is
\* counted, the rate alert of the closing window goes out, and blinkCounter is 0
C6_Witness ==
    /\ FaceFrame
    /\ ~EyeQualifies(frame, config)
    /\ result.eyeClosure.closureFrames = 2
    /\ config.eyeClosedFramesThreshold = 3
    /\ HasAlert(emitted, "blink_rate_high", "mild")
    /\ blinkTimer = now
    /\ eyeClosureCounter = 0
    /\ blinkCounter = 0

\* C7: while setCalibration has never been called, a processFrame call emits no
\* head_turn, head_droop or gaze_deviation alert and returns turn, tilt and droop
\* 'none' and lookingAway false, whatever the offsets; once it has been called, the
\* horizontal offset from the calibrated centre selects the head-turn tier, and a
\* vertical or gaze offset beyond its threshold is reported.
C7_InertUntilCalibrated ==
    FaceFrame =>
        IF calibrationData = NoCalibration
        THEN /\ CountType(emitted, "head_turn") = 0
             /\ CountType(emitted, "head_droop") = 0
             /\ CountType(emitted, "gaze_deviation") = 0
             /\ result.headPose.turn = "none"
             /\ result.headPose.tilt = "none"
             /\ result.headPose.droop = "none"
             /\ ~result.gaze.lookingAway
        ELSE LET dx == Abs(frame.headX - calibrationData.headCenterX)
                 dy == Abs(frame.headY - calibrationData.headCenterY)
                 dg == Abs(frame.irisX - calibrationData.gazeCenter)
             IN /\ result.headPose.turn =
                       (IF dx <= config.headTurnThreshold THEN "none"
                        ELSE IF dx < 100 THEN "mild"
                        ELSE IF dx < 200 THEN "moderate" ELSE "severe")
                /\ dx > config.headTurnThreshold
                       => HasAlert(emitted, "head_turn", result.headPose.turn)
                /\ dy > config.headTurnThreshold
                       <=> (result.headPose.tilt # "none" \/ result.headPose.droop # "none")
                /\ dg > config.gazeDeviationThreshold <=> result.gaze.lookingAway
                /\ result.gaze.lookingAway => CountType(emitted, "gaze_deviation") = 1

\* the frame that was inert before calibration (nose tip 0.2 right of centre) is
\* reported as a severe head turn after it
C7_Witness ==
    /\ FaceFrame
    /\ calibrationData # NoCalibration
    /\ frame.headX = 700
    /\ calibrationData.headCenterX = 500
    /\ result.headPose.turn = "severe"
    /\ HasAlert(emitted, "head_turn", "severe")

\* C8: a processFrame call in which eye closure is at the severe tier and yawning is
\* active emits an eye_closure alert and a drowsiness alert in that call, and reports
\* drowsiness level 'severe'.
C8_SevereEyesAndYawn ==
    (FaceFrame /\ result.eyeClosure.severity = "alert" /\ result.mouth.isYawning) =>
        /\ HasAlert(emitted, "eye_closure", "severe")
        /\ HasAlert(emitted, "drowsiness", "severe")
        /\ result.drowsiness = "severe"

C8_Witness ==
    /\ FaceFrame
    /\ result.eyeClosure.severity = "alert"
    /\ result.mouth.isYawning
    /\ result.headPose.droop = "none"
    /\ HasAlert(emitted, "eye_closure", "severe")
    /\ HasAlert(emitted, "drowsiness", "severe")

\* C9: in every reachable state the counters of the engine (eyeClosureCounter,
\* blinkCounter, yawnCounter) and the frame counts of the frame processor (drowsy,
\* yawn, phone use, distraction) are >= 0.
C9_CountersNonNegative ==
    /\ eyeClosureCounter >= 0
    /\ blinkCounter >= 0
    /\ yawnCounter >= 0
    /\ detectionState.drowsyFrameCount >= 0
    /\ detectionState.yawnFrameCount >= 0
    /\ detectionState.phoneUseFrameCount >= 0
    /\ detectionState.distractionFrameCount >= 0

\* the drowsy count, decaying by 2, is back at 0 while another count is still up
C9_Witness ==
    /\ isMonitoring
    /\ triggerCalls = <<>>
    /\ detectionState.drowsyFrameCount = 0
    /\ detectionState.yawnFrameCount = 2
    /\ detectionState.lastAlertTime >= StartTime

\* rank of the eye-closure tiers: normal < warning < alert
EyeRank(tier) ==
    CASE tier = "alert" -> 2
      [] tier = "warning" -> 1
      [] OTHER -> 0

\* highest severity rank among the alerts of one type (0 when there is none)
SeverityRank(alerts, type) ==
    IF \E i \in DOMAIN alerts : alerts[i].type = type /\ alerts[i].severity = "severe" THEN 3
    ELSE IF \E i \in DOMAIN alerts : alerts[i].type = type /\ alerts[i].severity = "moderate" THEN 2
    ELSE IF \E i \in DOMAIN alerts : alerts[i].type = type THEN 1
    ELSE 0

\* C10: under the configuration and calibration in force, the tier reported for the
\* frame just processed is never lower than the tier any smaller offset in the same
\* direction selects: for the horizontal head offset, the upward and the downward
\* vertical offset, the gaze offset, and the eye-closure counter.
C10_SeverityMonotonic ==
    /\ (FaceFrame /\ calibrationData # NoCalibration) =>
          LET dx == Abs(frame.headX - calibrationData.headCenterX)
              dy == Abs(frame.headY - calibrationData.headCenterY)
              dg == Abs(frame.irisX - calibrationData.gazeCenter)
              up == frame.headY < calibrationData.headCenterY
          IN /\ \A d \in 0..dx :
                    Rank(HeadTurnTier(d, config)) <= Rank(result.headPose.turn)
             /\ up => \A d \in 0..dy :
                    Rank(UpwardTier(d, config)) <= Rank(result.headPose.tilt)
             /\ ~up => \A d \in 0..dy :
                    Rank(DroopTier(d, config)) <= Rank(result.headPose.droop)
             /\ \A d \in 0..dg :
                    Rank(GazeTier(d, config)) <= SeverityRank(emitted, "gaze_deviation")
    /\ ClosedFrame =>
          \A c \in 0..eyeClosureCounter :
              EyeRank(EyeTier(c, config)) <= EyeRank(result.eyeClosure.severity)

\* a head turn of 0.18 from the calibrated centre, above offsets of every lower tier
C10_Witness ==
    /\ FaceFrame
    /\ calibrationData # NoCalibration
    /\ Abs(frame.headX - calibrationData.headCenterX) = 180
    /\ result.headPose.turn = "moderate"
    /\ config.headTurnThreshold = 60
    /\ HeadTurnTier(90, config) = "mild"
    /\ HeadTurnTier(50, config) = "none"

\* C11: a processFrame call without a face, with or without hands in view, emits and
\* delivers no alert and returns the neutral defaults: EARs 0, MAR 0, gaze at
\* (0.5, 0.5) with deviation 0, every head-pose level 'none', every hand flag false,
\* drowsiness and distraction 'none'.
C11_NoFaceNeutral ==
    (frame # NoFrame /\ ~frame.face) =>
        /\ emitted = <<>>
        /\ \A s \in 1..alertCallbacks : received[s] = <<>>
        /\ result.eyeClosure.leftEAR = 0 /\ result.eyeClosure.rightEAR = 0
        /\ result.eyeClosure.averageEAR = 0
        /\ result.eyeClosure.severity = "normal" /\ ~result.eyeClosure.isEyesClosed
        /\ result.mouth.MAR = 0 /\ ~result.mouth.isYawning
        /\ result.gaze.x = 500 /\ result.gaze.y = 500
        /\ result.gaze.deviation = 0 /\ ~result.gaze.lookingAway
        /\ result.headPose.turn = "none" /\ result.headPose.tilt = "none"
        /\ result.headPose.droop = "none"
        /\ ~result.hands.nearEar /\ ~result.hands.nearFace
        /\ ~result.hands.possibleTexting /\ ~result.hands.phoneUsage
        /\ result.drowsiness = "none" /\ result.distraction = "none"
        /\ result.eyeClosure.closureFrames = eyeClosureCounter
        /\ result.mouth.yawnCount = yawnCounter

\* the face is lost with a hand at the ear, in a calibrated engine whose eye-closure
\* counter is already past the threshold
C11_Witness ==
    /\ frame = NoFaceHandFrame
    /\ calibrationData # NoCalibration
    /\ eyeClosureCounter > config.eyeClosedFramesThreshold
    /\ emitted = <<>>
    /\ result.gaze.x = 500

\* C12: setConfig(p) sets exactly the fields of p and keeps every other field,
\* changes no counter, calibration or subscriber; and the frame processed next is
\* classified with the thresholds then in force (eye-closure tier against the
\* current eyeClosedFramesThreshold, head turn against the current
\* headTurnThreshold).
C12_SetConfigMerges ==
    /\ [][ \A p \in ConfigInputs : SetConfig(p) =>
              /\ DOMAIN config' = DOMAIN config
              /\ \A k \in DOMAIN config :
                     config'[k] = IF k \in DOMAIN p THEN p[k] ELSE config[k]
              /\ UNCHANGED <<eyeClosureCounter, blinkCounter, yawnCounter, blinkTimer,
                             calibrationData, isCalibrated, alertCallbacks>> ]_vars
    /\ [](ClosedFrame =>
              /\ eyeClosureCounter > config.eyeClosedFramesThreshold
                     => CountType(emitted, "eye_closure") = 1
              /\ eyeClosureCounter <= config.eyeClosedFramesThreshold
                     => CountType(emitted, "eye_closure") = 0)
    /\ []((FaceFrame /\ calibrationData # NoCalibration) =>
              (result.headPose.turn # "none"
                  <=> Abs(frame.headX - calibrationData.headCenterX)
                          > config.headTurnThreshold))

\* the threshold was lowered to 3 with the head-turn threshold already lowered and
\* kept; the qualifying frame that takes the counter from 8 to 9 fires the
\* moderate alert, which the default threshold 9 would not
C12_Witness ==
    /\ ClosedFrame
    /\ config.eyeClosedFramesThreshold = 3
    /\ config.headTurnThreshold = 60
    /\ result.eyeClosure.closureFrames = 8
    /\ eyeClosureCounter = 9
    /\ HasAlert(emitted, "eye_closure", "moderate")

\* C13: every alert a call builds is delivered, within that call, to every
\* subscriber registered at the time, once each and in the order built; nothing is
\* kept: registering a subscriber delivers nothing, so a later subscriber receives
\* none of the alerts triggered before.
C13_FanOutOncePerSubscriber ==
    /\ [](/\ DOMAIN received = 1..alertCallbacks
          /\ \A s \in 1..alertCallbacks : received[s] = emitted)
    /\ [][ AddAlertCallback =>
              \A s \in 1..alertCallbacks' : received'[s] = <<>> ]_vars

\* several alerts of one call (eye closure and head pose), each delivered to both
\* subscribers
C13_Witness ==
    /\ alertCallbacks = 2
    /\ Len(emitted) >= 2
    /\ HasAlert(emitted, "eye_closure", "moderate")
    /\ CountType(emitted, "head_turn") >= 1
    /\ received[1] = emitted
    /\ received[2] = emitted

\* C14 as stated: drowsiness and yawn calls share one gate, so such a call is
\* dispatched exactly when a cooldown window has passed since the last drowsiness or
\* yawn alert; a phone-use or a distraction call is suppressed by its own gate only,
\* that is, only within a window of the last alert of its own category.
C14_SharedAndIndependentGates ==
    \A i \in DOMAIN triggerCalls :
        LET call == triggerCalls[i]
            gap  == call.at - call.since
        IN IF call.kind \in {"drowsy", "yawn"}
           THEN call.dispatched <=> gap >= ALERT_COOLDOWN
           ELSE ~call.dispatched => gap < ALERT_COOLDOWN

\* offsets of the processed frame from the calibrated centre (0 while uncalibrated,
\* when pose and gaze are not evaluated)
XOffset == IF calibrationData = NoCalibration THEN 0
           ELSE Abs(frame.headX - calibrationData.headCenterX)

YOffset == IF calibrationData = NoCalibration THEN 0
           ELSE Abs(frame.headY - calibrationData.headCenterY)

GazeOffset == IF calibrationData = NoCalibration THEN 0
              ELSE Abs(frame.irisX - calibrationData.gazeCenter)

LooksUp == calibrationData # NoCalibration /\ frame.headY < calibrationData.headCenterY

Indicator(b) == IF b THEN 1 ELSE 0

HandsNearEar == Cardinality({ i \in DOMAIN frame.hands : frame.hands[i].earDist < 40 })

HandsNearFace ==
    Cardinality({ i \in DOMAIN frame.hands :
                      frame.hands[i].faceDist < config.handNearFaceDistance })

\* C15 as stated: a frame emits exactly one head_turn alert when its horizontal
\* offset exceeds headTurnThreshold, one gaze_deviation alert when its gaze offset
\* exceeds gazeDeviationThreshold, one phone_usage, hand_near_face or texting alert
\* when that condition holds, and none otherwise, whatever the frames before it (so
\* K such frames emit exactly K alerts).
C15_OneAlertPerFrame ==
    FaceFrame =>
        /\ CountType(emitted, "head_turn") = Indicator(XOffset > config.headTurnThreshold)
        /\ CountType(emitted, "gaze_deviation")
               = Indicator(GazeOffset > config.gazeDeviationThreshold)
        /\ CountType(emitted, "phone_usage") = Indicator(HandsNearEar > 0)
        /\ CountType(emitted, "hand_near_face") = Indicator(HandsNearFace > 0)
        /\ CountType(emitted, "texting") = Indicator(DetectTexting(frame.hands))

\* C15 amended: whatever the frames before it, a frame emits one head_turn alert for
\* a horizontal offset beyond headTurnThreshold plus one head_turn alert for an
\* upward offset beyond it, one head_droop alert for a downward offset beyond it, one
\* gaze_deviation alert for a gaze offset beyond gazeDeviationThreshold, one
\* phone_usage alert per hand near an ear, one hand_near_face alert per hand near the
\* face, and one texting alert for the two-hand texting geometry.
C15_AlertsPerFrameAndHand ==
    FaceFrame =>
        /\ CountType(emitted, "head_turn")
               = Indicator(XOffset > config.headTurnThreshold)
                 + Indicator(LooksUp /\ YOffset > config.headTurnThreshold)
        /\ CountType(emitted, "head_droop")
               = Indicator(~LooksUp /\ YOffset > config.headTurnThreshold)
        /\ CountType(emitted, "gaze_deviation")
               = Indicator(GazeOffset > config.gazeDeviationThreshold)
        /\ CountType(emitted, "phone_usage") = HandsNearEar
        /\ CountType(emitted, "hand_near_face") = HandsNearFace
        /\ CountType(emitted, "texting") = Indicator(DetectTexting(frame.hands))

\* a frame with a hand at each ear: two phone_usage alerts in one call
C15_Witness ==
    /\ FaceFrame
    /\ Len(frame.hands) = 2
    /\ HandsNearEar = 2
    /\ CountType(emitted, "phone_usage") = 2

\* the secondary indicator of the composite drowsiness assessment
SecondaryIndicator == result.headPose.droop # "none" \/ result.mouth.isYawning

\* C16: after a frame, drowsiness.level is severe exactly when the frame's eye
\* severity is 2 (alert) and the head droops at least mildly or a yawn was detected
\* on the frame, moderate exactly when the eye severity is 1 (warning) with such a
\* secondary indicator, and none otherwise; one drowsiness alert of that severity is
\* emitted when the level is not none, and none when it is.
C16_DrowsinessComposite ==
    result # NoResult =>
        LET eyeSev == EyeClosureSeverity(result.eyeClosure.severity)
            level  == result.drowsiness
        IN /\ level = "severe" <=> (eyeSev = 2 /\ SecondaryIndicator)
           /\ level = "moderate" <=> (eyeSev = 1 /\ SecondaryIndicator)
           /\ level \in {"severe", "moderate", "none"}
           /\ CountType(emitted, "drowsiness") = Indicator(level # "none")
           /\ level # "none" => HasAlert(emitted, "drowsiness", level)

\* a warning-level eye closure with a drooping head and no yawn: moderate
C16_Witness ==
    /\ FaceFrame
    /\ result.eyeClosure.severity = "warning"
    /\ result.headPose.droop # "none"
    /\ ~result.mouth.isYawning
    /\ result.drowsiness = "moderate"
    /\ HasAlert(emitted, "drowsiness", "moderate")

\* result.hands.nearEar || result.hands.nearFace || result.hands.possibleTexting
HandsNotFree ==
    result.hands.nearEar \/ result.hands.nearFace \/ result.hands.possibleTexting

\* C17: after a frame, distraction.level is severe exactly when the head turn or the
\* upward tilt is at least moderate and the hands are not free, moderate exactly when
\* the turn or the tilt is at least mild, the hands are not free and the level is
\* not severe, and none otherwise; one distraction alert of that severity is emitted
\* when the level is not none, and none when it is.
C17_DistractionComposite ==
    result # NoResult =>
        LET turnSev == Rank(result.headPose.turn)
            tiltSev == Rank(result.headPose.tilt)
            severe  == (turnSev >= 2 \/ tiltSev >= 2) /\ HandsNotFree
            level   == result.distraction
        IN /\ level = "severe" <=> severe
           /\ level = "moderate"
                 <=> ((turnSev >= 1 \/ tiltSev >= 1) /\ HandsNotFree /\ ~severe)
           /\ level \in {"severe", "moderate", "none"}
           /\ CountType(emitted, "distraction") = Indicator(level # "none")
           /\ level # "none" => HasAlert(emitted, "distraction", level)

\* a head raised to the moderate tier, not turned, with a hand near the face: severe
C17_Witness ==
    /\ FaceFrame
    /\ result.headPose.turn = "none"
    /\ Rank(result.headPose.tilt) >= 2
    /\ result.hands.nearFace
    /\ result.distraction = "severe"
    /\ HasAlert(emitted, "distraction", "severe")

\* C18: a frame processed more than 60 s after the blink window opened closes the
\* window: a mild blink_rate_high alert is emitted in that call exactly when the
\* blinks counted in the window reach blinkRateThreshold, and blinkCounter is 0 and
\* the window restarts at the time of the call whether or not the alert fired, so no
\* window is still open after a frame that came more than 60 s after its start.
C18_WindowClosesAfterSixtySeconds ==
    [][(FrameStep /\ now - blinkTimer > 60000) =>
          LET count == NextBlinkCounter(blinkCounter, eyeClosureCounter,
                                        EyeQualifies(frame', config), config)
          IN /\ blinkCounter' = 0
             /\ blinkTimer' = now
             /\ HasAlert(emitted', "blink_rate_high", "mild")
                   <=> count >= config.blinkRateThreshold
             /\ CountType(emitted', "blink_rate_high")
                   = Indicator(count >= config.blinkRateThreshold)]_vars

\* C19: a frame with a face whose yawn count (the counter plus one when the MAR is
\* above marThreshold) exceeds yawnThreshold sets isYawning, emits exactly one
\* moderate yawning alert and leaves yawnCounter at 0, also when the MAR of that
\* frame is above the threshold; any other frame emits no yawning alert and keeps
\* the count.  The counter never exceeds yawnThreshold between calls, so a MAR held
\* high fires once every yawnThreshold + 1 frames.
C19_YawnFiresAndResets ==
    /\ [](yawnCounter <= config.yawnThreshold)
    /\ [][(FrameStep /\ frame'.face) =>
            LET y1 == IF frame'.mar > config.marThreshold
                          THEN yawnCounter + 1 ELSE yawnCounter
            IN IF y1 > config.yawnThreshold
                   THEN /\ result'.mouth.isYawning
                        /\ CountType(emitted', "yawning") = 1
                        /\ HasAlert(emitted', "yawning", "moderate")
                        /\ yawnCounter' = 0
                   ELSE /\ ~result'.mouth.isYawning
                        /\ CountType(emitted', "yawning") = 0
                        /\ yawnCounter' = y1]_vars

\* the frame on which the yawn fires: the mouth still open, the counter back at 0
C19_Witness ==
    /\ FaceFrame
    /\ frame.mar > config.marThreshold
    /\ result.mouth.yawnCount = config.yawnThreshold
    /\ result.mouth.isYawning
    /\ HasAlert(emitted, "yawning", "moderate")
    /\ yawnCounter = 0

\* C20: a frame with a face whose MAR is not above marThreshold, processed while
\* yawnCounter is positive, leaves yawnCounter strictly smaller (the counter decays
\* or resets on a non-yawning frame), and emits no yawning alert.
C20_YawnCounterDecays ==
    [][(FrameStep /\ frame'.face /\ frame'.mar <= config.marThreshold
                 /\ yawnCounter > 0) =>
          /\ yawnCounter' < yawnCounter
          /\ CountType(emitted', "yawning") = 0]_vars

\* the alerts of the horizontal head-turn check ('Mild Head Turn', ...) in a call
HorizontalTurnAlerts(alerts) ==
    { i \in DOMAIN alerts :
          /\ alerts[i].type = "head_turn"
          /\ alerts[i].message \in { "Mild Head Turn", "Moderate Head Turn",
                                     "Severe Head Turn" } }

UpwardLookAlerts(alerts) ==
    { i \in DOMAIN alerts :
          /\ alerts[i].type = "head_turn"
          /\ alerts[i].message \in { "Mild Looking Upward", "Moderate Looking Upward",
                                     "Severe Looking Upward" } }

\* C22: on a calibrated engine, a frame whose vertical offset d from headCenterY
\* exceeds headTurnThreshold sets, when the nose is above the centre, headPose.tilt
\* (mild for d < 0.08, moderate for d < 0.15, severe otherwise), emits one head_turn
\* alert of that severity and leaves droop 'none'; otherwise it sets headPose.droop
\* (mild for d < 0.07, moderate for d < 0.12, severe otherwise), emits one head_droop
\* alert of that severity and leaves tilt 'none'.  Tilt and droop are never both set.
C22_TiltOrDroop ==
    /\ result # NoResult =>
          (result.headPose.tilt = "none" \/ result.headPose.droop = "none")
    /\ (FaceFrame /\ isCalibrated /\ YOffset > config.headTurnThreshold) =>
          LET d  == YOffset
              up == IF d < 80 THEN "mild" ELSE IF d < 150 THEN "moderate" ELSE "severe"
              dn == IF d < 70 THEN "mild" ELSE IF d < 120 THEN "moderate" ELSE "severe"
          IN IF frame.headY < calibrationData.headCenterY
                 THEN /\ result.headPose.tilt = up
                      /\ result.headPose.droop = "none"
                      /\ Cardinality(UpwardLookAlerts(emitted)) = 1
                      /\ \A i \in UpwardLookAlerts(emitted) : emitted[i].severity = up
                      /\ CountType(emitted, "head_droop") = 0
                 ELSE /\ result.headPose.droop = dn
                      /\ result.headPose.tilt = "none"
                      /\ CountType(emitted, "head_droop") = 1
                      /\ HasAlert(emitted, "head_droop", dn)
                      /\ UpwardLookAlerts(emitted) = {}

\* a head dropped by exactly 0.12: severe droop, no tilt
C22_Witness ==
    /\ FaceFrame
    /\ isCalibrated
    /\ frame.headY > calibrationData.headCenterY
    /\ YOffset = 120
    /\ result.headPose.droop = "severe"
    /\ result.headPose.tilt = "none"
    /\ HasAlert(emitted, "head_droop", "severe")

\* both hand centres in the lower 40% of the frame and closer than 0.35 frame widths
TextingGeometry(hands) ==
    /\ hands[1].cy > 600 /\ hands[2].cy > 600
    /\   (hands[1].cx - hands[2].cx) * (hands[1].cx - hands[2].cx)
       + (hands[1].cy - hands[2].cy) * (hands[1].cy - hands[2].cy) < 350 * 350

\* C23: on a frame with a face each hand is judged on its own: every hand within
\* 40 px of an ear emits one moderate phone_usage alert and sets nearEar and
\* phoneUsage, every hand within handNearFaceDistance of the nose tip emits one mild
\* hand_near_face alert and sets nearFace (two such hands, two alerts); the severe
\* texting alert is emitted at most once, and only when there are exactly two hands
\* and they satisfy the texting geometry.
C23_HandsJudgedIndependently ==
    FaceFrame =>
        /\ CountType(emitted, "phone_usage") = HandsNearEar
        /\ \A i \in DOMAIN emitted :
               emitted[i].type = "phone_usage" => emitted[i].severity = "moderate"
        /\ result.hands.nearEar <=> HandsNearEar > 0
        /\ result.hands.phoneUsage <=> HandsNearEar > 0
        /\ CountType(emitted, "hand_near_face") = HandsNearFace
        /\ \A i \in DOMAIN emitted :
               emitted[i].type = "hand_near_face" => emitted[i].severity = "mild"
        /\ result.hands.nearFace <=> HandsNearFace > 0
        /\ CountType(emitted, "texting")
              = Indicator(Len(frame.hands) = 2 /\ TextingGeometry(frame.hands))
        /\ \A i \in DOMAIN emitted :
               emitted[i].type = "texting" => emitted[i].severity = "severe"
        /\ result.hands.possibleTexting <=> CountType(emitted, "texting") = 1

\* two hands near the nose tip: two hand_near_face alerts in one call
C23_Witness ==
    /\ FaceFrame
    /\ Len(frame.hands) = 2
    /\ HandsNearFace = 2
    /\ CountType(emitted, "hand_near_face") = 2
    /\ result.hands.nearFace
    /\ CountType(emitted, "texting") = 0

C25_SevereTierKeepsCounting ==
    [][(FrameStep /\ frame'.face /\ eyeClosureCounter >= 30) =>
          IF EyeQualifies(frame', config)
              THEN /\ eyeClosureCounter' = eyeClosureCounter + 1
                   /\ result'.eyeClosure.severity = "alert"
                   /\ result'.eyeClosure.isEyesClosed
                   /\ CountType(emitted', "eye_closure") = 1
                   /\ \E i \in DOMAIN emitted' :
                          /\ emitted'[i].type = "eye_closure"
                          /\ emitted'[i].severity = "severe"
                          /\ emitted'[i].message = "Alert: Eyes Closed Too Long"
              ELSE /\ eyeClosureCounter' = 0
                   /\ result'.eyeClosure.severity = "normal"
                   /\ CountType(emitted', "eye_closure") = 0]_vars

\* the second frame beyond 30: severe again, the counter at 32
C25_Witness ==
    /\ ClosedFrame
    /\ result.eyeClosure.closureFrames = 31
    /\ eyeClosureCounter = 32
    /\ result.eyeClosure.severity = "alert"
    /\ HasAlert(emitted, "eye_closure", "severe")

\* C26: a processFrame call without a face leaves the whole engine state as it was:
\* the three counters, the start of the blink window and the MAR history (and the
\* config, the calibration and the subscribers), so an eye-closure run is neither
\* reset nor advanced and an elapsed blink window is not closed by it.
C26_NoFaceLeavesState ==
    [][(FrameStep /\ ~frame'.face) =>
          /\ UNCHANGED <<eyeClosureCounter, blinkCounter, yawnCounter, blinkTimer,
                         marHistory>>
          /\ UNCHANGED <<config, calibrationData, isCalibrated, alertCallbacks>>
          /\ CountType(emitted', "blink_rate_high") = 0]_vars

\* a frame without a face in the middle of an eye-closure run, with a yawn count
\* pending and the 60 s of the blink window over
C26_Witness ==
    /\ frame # NoFrame
    /\ ~frame.face
    /\ eyeClosureCounter > 0
    /\ result.eyeClosure.closureFrames = eyeClosureCounter
    /\ yawnCounter > 0
    /\ now - blinkTimer > 60000
    /\ emitted = <<>>

\* C27: reset() sets the three counters to 0, restarts the blink window at the time
\* of the call and zeroes the MAR history, and leaves the config, the calibration
\* snapshot, the isCalibrated flag and the subscribers as they were; no operation
\* ever clears isCalibrated, so the head-pose and gaze checks stay active across a
\* reset.
C27_ResetKeepsCalibration ==
    /\ [][Reset =>
            /\ eyeClosureCounter' = 0 /\ blinkCounter' = 0 /\ yawnCounter' = 0
            /\ blinkTimer' = now
            /\ Len(marHistory') = Len(marHistory)
            /\ \A i \in DOMAIN marHistory' : marHistory'[i] = 0
            /\ UNCHANGED <<config, calibrationData, isCalibrated, alertCallbacks>>]_vars
    /\ [][isCalibrated => isCalibrated']_vars
    /\ [][(isCalibrated /\ FrameStep /\ frame'.face) =>
            result'.headPose.turn
               = HeadTurnTier(Abs(frame'.headX - calibrationData.headCenterX), config)]_vars

\* after a reset late in the blink window of a calibrated engine with a subscriber
\* and a changed config
C27_Witness ==
    /\ frame = NoFrame
    /\ eyeClosureCounter = 0 /\ blinkCounter = 0 /\ yawnCounter = 0
    /\ blinkTimer = now
    /\ now > StartTime
    /\ isCalibrated
    /\ calibrationData # NoCalibration
    /\ alertCallbacks > 0
    /\ config # DEFAULT_CONFIG

\* C28: a frame reports headPose.tilt 'mild' only under a headTurnThreshold below
\* 0.08 and headPose.droop 'mild' only under a headTurnThreshold below 0.07; under
\* the default configuration (headTurnThreshold 0.08) no frame reports either.
C28_MildVerticalTiersNeedLowThreshold ==
    result # NoResult =>
        /\ result.headPose.tilt = "mild" => config.headTurnThreshold < 80
        /\ result.headPose.droop = "mild" => config.headTurnThreshold < 70
        /\ config = DEFAULT_CONFIG =>
               (result.headPose.tilt # "mild" /\ result.headPose.droop # "mild")

\* a head dropped by 0.065 lands in no tier under the default threshold 0.08 (with
\* the threshold lowered to 0.06 the same offset is a mild droop)
C28_Witness ==
    /\ FaceFrame
    /\ isCalibrated
    /\ config = DEFAULT_CONFIG
    /\ ~LooksUp
    /\ YOffset = 65
    /\ result.headPose.droop = "none"
    /\ DroopTier(65, [config EXCEPT !.headTurnThreshold = 60]) = "mild"

\* the yawn detection fires in this step
YawnFires == FrameStep /\ frame'.face /\ result'.mouth.isYawning

\* frames with MAR > marThreshold processed since the yawn last fired (or since the
\* engine was constructed), the frame of this step included (at most MaxYawnFrames
\* are told apart)
YawnFramesBetweenFirings ==
    IF frame'.mar > config.marThreshold /\ yawnRun.frames < MaxYawnFrames
        THEN yawnRun.frames + 1 ELSE yawnRun.frames

\* C29 as stated: at the return of every processFrame call that saw a face,
\* yawnCounter is between 0 and the current yawnThreshold, and whenever the yawn
\* detection fires, exactly yawnThreshold + 1 frames with MAR > marThreshold have
\* been processed since it last fired, consecutive or not.
C29_ThresholdPlusOneBetweenFirings ==
    /\ [](FaceFrame => (yawnCounter >= 0 /\ yawnCounter <= config.yawnThreshold))
    /\ [][YawnFires => YawnFramesBetweenFirings = config.yawnThreshold + 1]_vars

\* C29 amended: at the return of every processFrame call that saw a face,
\* yawnCounter is between 0 and the current yawnThreshold; and whenever the yawn
\* detection fires with no reset() of a positive count and no change of
\* yawnThreshold since it last fired, exactly yawnThreshold + 1 frames with
\* MAR > marThreshold have been processed since then, consecutive or not.
C29_ThresholdPlusOneUnlessRestarted ==
    /\ [](FaceFrame => (yawnCounter >= 0 /\ yawnCounter <= config.yawnThreshold))
    /\ [][(YawnFires /\ ~yawnRun.disturbed) =>
             YawnFramesBetweenFirings = config.yawnThreshold + 1]_vars

\* three open-mouth frames counted, the last frame with the mouth closed: the
\* count stands at the threshold across the gap, one frame short of firing
C29_Witness ==
    /\ FaceFrame
    /\ frame.mar <= config.marThreshold
    /\ ~yawnRun.disturbed
    /\ yawnRun.frames = 3
    /\ yawnCounter = config.yawnThreshold
    /\ config.yawnThreshold = 3

\* C30: at most one syncPendingData run is in progress at any time, and isSyncing
\* is true exactly while one is; a call made while isSyncing is true, while offline
\* or without an auth token is rejected and starts nothing, any other call starts
\* the one run; and when a run ends, by returning or by throwing, isSyncing is
\* false again.
C30_OneSyncRunAtATime ==
    /\ [](Len(syncRuns) <= 1)
    /\ [](isSyncing <=> Len(syncRuns) = 1)
    /\ [][syncCall' # "none" =>
            IF isSyncing \/ ~isOnline' \/ ~authToken
                THEN syncCall' = "rejected" /\ UNCHANGED <<syncRuns, isSyncing>>
                ELSE /\ syncCall' = "started"
                     /\ syncRuns' = <<"sessions">>
                     /\ isSyncing']_vars
    /\ [][Len(syncRuns') < Len(syncRuns) => (~isSyncing' /\ syncRuns' = <<>>)]_vars

\* a call rejected while a run is in the middle of its uploads, online, with a token
\* and the auto-sync timer set
C30_Witness ==
    /\ syncCall = "rejected"
    /\ isSyncing
    /\ syncRuns = <<"alerts">>
    /\ isOnline
    /\ authToken
    /\ syncTimer

====
